---- MODULE Spec2Model ----
(***************************************************************************)
(* A model of the backup launcher (package main of bodemann/backup):       *)
(* configuration resolution (getConfig), release resolution and download   *)
(* (downloadRestic), repository initialization (ensureRepo), the confirmed *)
(* backup (runBackup), notification (notify) and main, which runs them in  *)
(* order.  Strings are TLA+ strings; a byte that is not valid UTF-8 is     *)
(* written BadByte and U+FFFD is written Replacement.                      *)
(***************************************************************************)
EXTENDS Integers, Sequences, FiniteSets, TLC

VARIABLES
    cfgFile,   \* config.json in the working directory
    cached,    \* the configuration whose marshalling created cfgFile, if any
    pc,        \* "idle": nothing running; "done": getConfig has returned;
               \* "downloaded": downloadRestic has returned; in a run of main,
               \* the step main has reached
    run,       \* what the last getConfig call read, computed and returned
    bin,       \* the directory ./bin and the restic executable in it
    dl,        \* what the last downloadRestic call was given and did
    io,        \* what the running process has printed, requested, executed
               \* and written so far, in order; for two processes, their
               \* steps on config.json
    mainCfg,   \* cfg of main: the configuration getConfig returned to it
    repos,     \* the repository directories that hold a config file
    platform,  \* runtime.GOOS and runtime.GOARCH of the machine main runs on
    call,      \* what the last direct call of a function was given and did
    procs      \* two processes inside getConfig at the same time: where each
               \* is, what it was given, what it read and resolved

configVars == <<cfgFile, cached, run>>
releaseVars == <<bin, dl>>
mainVars == <<io, mainCfg, repos, platform, call, procs>>
vars == <<cfgFile, cached, pc, run, bin, dl, io, mainCfg, repos, platform, call,
          procs>>

----------------------------------------------------------------------------
(* Strings and encoding/json                                               *)

BadByte == "#"
Replacement == "?"

RECURSIVE ToValidUTF8(_)
\* encoding/json coerces strings to valid UTF-8 when it encodes and decodes.
ToValidUTF8(s) ==
    IF s = "" THEN ""
    ELSE (IF SubSeq(s, 1, 1) = BadByte THEN Replacement ELSE SubSeq(s, 1, 1))
         \o ToValidUTF8(SubSeq(s, 2, Len(s)))

\* JSON values
JStr(s) == [t |-> "string", s |-> s]
JNum == [t |-> "number"]
JNull == [t |-> "null"]
JArr(a) == [t |-> "array", a |-> a]

\* JSON texts (the body of a response, the content of a file)
JObject(o) == [k |-> "object", o |-> o]
JTopNull == [k |-> "null"]
JTopArray == [k |-> "array"]
JInvalid == [k |-> "invalid"]

\* m[key] of a Go map: the nil interface when the key is missing
Lookup(m, key) == IF key \in DOMAIN m THEN m[key] ELSE JNull

----------------------------------------------------------------------------
(* type config and defaultEmbeddedConfig                                   *)

StringFields ==
    {"Repo", "Password", "PushoverToken", "PushoverUser", "EmailServer",
     "EmailUser", "EmailPassword", "EmailFrom", "EmailTo"}

NotifyFields == StringFields \ {"Repo", "Password"}

\* the json tags of type config
Tag ==
    [Repo |-> "repo", Password |-> "password", Paths |-> "paths",
     PushoverToken |-> "pushover-token", PushoverUser |-> "pushover-user",
     EmailServer |-> "email-server", EmailUser |-> "email-user",
     EmailPassword |-> "email-password", EmailFrom |-> "email-from",
     EmailTo |-> "email-to"]

\* the keys getConfig reads from the Pastebin document
PastebinKey ==
    [Repo |-> "restic-repo", Password |-> "restic-repo-password",
     Paths |-> "paths",
     PushoverToken |-> "pushover-token", PushoverUser |-> "pushover-user",
     EmailServer |-> "email-server", EmailUser |-> "email-user",
     EmailPassword |-> "email-password", EmailFrom |-> "email-from",
     EmailTo |-> "email-to"]

\* the zero value of type config
ZeroConfig ==
    [Repo |-> "", Password |-> "", Paths |-> <<>>,
     PushoverToken |-> "", PushoverUser |-> "", EmailServer |-> "",
     EmailUser |-> "", EmailPassword |-> "", EmailFrom |-> "", EmailTo |-> ""]

\* filepath.Join(home, name) for a clean name without separators
JoinHome(home, name) == IF home = "" THEN name ELSE home \o "/" \o name

defaultEmbeddedConfig(home) ==
    [ZeroConfig EXCEPT
        !.Repo = "~/tmp/test-backup",
        !.Password = "test password",
        !.Paths = <<JoinHome(home, "Documents"), JoinHome(home, "Pictures"),
                    JoinHome(home, "Desktop")>>]

----------------------------------------------------------------------------
(* The sources getConfig reads                                             *)

configFile == "config.json"
pastebinURL == "https://pastebin.com/raw/example"
StatusOK == 200

\* an environment variable: unset, or set to a value
Unset == [val |-> "", set |-> FALSE]
SetTo(v) == [val |-> v, set |-> TRUE]

\* mutant: presence taken for non-emptiness, as os.Getenv would give it
LookupEnvNonEmpty(env, name) == [val |-> env[name].val, set |-> env[name].val /= ""]

\* os.LookupEnv: the value and whether the variable is present
LookupEnv(env, name) == env[name]

\* config.json on disk
Absent == [k |-> "absent"]
Unreadable == [k |-> "unreadable"]
FileWith(data) == [k |-> "data", data |-> data]

\* mutant: a file that cannot be read is reported as not existing
ReadFileNotExistOnError(file) ==
    CASE file.k \in {"absent", "unreadable"} -> [err |-> "notexist", data |-> JInvalid]
      [] OTHER -> [err |-> "none", data |-> file.data]

\* os.ReadFile(configFile)
ReadFile(file) ==
    CASE file.k = "absent" -> [err |-> "notexist", data |-> JInvalid]
      [] file.k = "unreadable" -> [err |-> "other", data |-> JInvalid]
      [] OTHER -> [err |-> "none", data |-> file.data]

RECURSIVE DecodeAny(_)
\* a JSON value decoded into an `any`
DecodeAny(v) ==
    CASE v.t = "string" -> JStr(ToValidUTF8(v.s))
      [] v.t = "array" -> JArr([i \in 1..Len(v.a) |-> DecodeAny(v.a[i])])
      [] OTHER -> v

\* json.NewDecoder(resp.Body).Decode(&data), data a map[string]any
DecodeMap(body) ==
    CASE body.k = "object" ->
            [err |-> FALSE, data |-> [key \in DOMAIN body.o |-> DecodeAny(body.o[key])]]
      [] body.k = "null" -> [err |-> FALSE, data |-> <<>>]
      [] OTHER -> [err |-> TRUE, data |-> <<>>]

\* mutant: the status code is not checked
fetchPastebinConfigAnyStatus(remote) ==
    IF remote.kind = "transport" THEN [err |-> TRUE, data |-> <<>>]
    ELSE DecodeMap(remote.body)

fetchPastebinConfig(remote) ==
    IF remote.kind = "transport" THEN [err |-> TRUE, data |-> <<>>]
    ELSE IF remote.status /= StatusOK THEN [err |-> TRUE, data |-> <<>>]
    ELSE DecodeMap(remote.body)

\* one string field of type config filled from a JSON value by json.Unmarshal
FieldOk(v) == v.t \in {"string", "null"}
FieldVal(v) == IF v.t = "string" THEN ToValidUTF8(v.s) ELSE ""

\* the Paths field ([]string) filled from a JSON value by json.Unmarshal
PathsOk(v) ==
    \/ v.t = "null"
    \/ v.t = "array" /\ \A i \in 1..Len(v.a) : FieldOk(v.a[i])
PathsVal(v) ==
    IF v.t = "array" THEN [i \in 1..Len(v.a) |-> FieldVal(v.a[i])] ELSE <<>>

\* json.Unmarshal(data, &fcfg), fcfg a config; a value of the wrong type under
\* any of the ten tags is an error, a missing key or a null leaves the zero
\* value (the documents of the model spell the keys as the tags do)
UnmarshalConfig(data) ==
    CASE data.k = "null" -> [ok |-> TRUE, cfg |-> ZeroConfig]
      [] data.k = "object" ->
            [ok |-> /\ \A f \in StringFields : FieldOk(Lookup(data.o, Tag[f]))
                    /\ PathsOk(Lookup(data.o, Tag.Paths)),
             cfg |-> [f \in DOMAIN ZeroConfig |->
                        IF f = "Paths" THEN PathsVal(Lookup(data.o, Tag.Paths))
                        ELSE FieldVal(Lookup(data.o, Tag[f]))]]
      [] OTHER -> [ok |-> FALSE, cfg |-> ZeroConfig]

\* mutant: the fields are written under the keys of the Pastebin document
MarshalConfigPastebinKeys(cfg) ==
    JObject([key \in {PastebinKey[f] : f \in DOMAIN PastebinKey} |->
        IF key = PastebinKey.Paths
        THEN (IF cfg.Paths = <<>> THEN JNull
              ELSE JArr([i \in 1..Len(cfg.Paths) |-> JStr(ToValidUTF8(cfg.Paths[i]))]))
        ELSE LET f == CHOOSE g \in StringFields : PastebinKey[g] = key
             IN  JStr(ToValidUTF8(cfg[f]))])

\* json.MarshalIndent(cfg, "", "  "): every field of type config, under its tag
MarshalConfig(cfg) ==
    JObject([key \in {Tag[f] : f \in DOMAIN Tag} |->
        IF key = Tag.Paths
        THEN (IF cfg.Paths = <<>> THEN JNull
              ELSE JArr([i \in 1..Len(cfg.Paths) |-> JStr(ToValidUTF8(cfg.Paths[i]))]))
        ELSE LET f == CHOOSE g \in StringFields : Tag[g] = key
             IN  JStr(ToValidUTF8(cfg[f]))])

\* os.WriteFile(configFile, data, 0644): created and written, not created,
\* or created and left truncated
WriteFile(file, data, outcome) ==
    CASE outcome = "ok" -> FileWith(data)
      [] outcome = "open-fails" -> file
      [] OTHER -> FileWith(JInvalid)

----------------------------------------------------------------------------
(* getConfig                                                               *)

\* mutant: the environment counts only when it gives both values
ApplyEnvBothOnly(cfg, repoEnv, passEnv) ==
    IF repoEnv.set /\ passEnv.set
    THEN [cfg EXCEPT !.Repo = repoEnv.val, !.Password = passEnv.val]
    ELSE cfg

\* cfg.Repo and cfg.Password from the environment
ApplyEnv(cfg, repoEnv, passEnv) ==
    [cfg EXCEPT !.Repo = IF repoEnv.set THEN repoEnv.val ELSE @,
                !.Password = IF passEnv.set THEN passEnv.val ELSE @]

\* the Pastebin document is fetched unless both variables are set
NeedFetch(repoEnvSet, passEnvSet) == ~(repoEnvSet /\ passEnvSet)

\* pb[key].(string)
IsString(pb, key) == Lookup(pb, key).t = "string"

\* the string elements of pb["paths"].([]any), in order
StringElems(a) ==
    LET strs == SelectSeq(a, LAMBDA e : e.t = "string")
    IN  [i \in 1..Len(strs) |-> strs[i].s]

PastebinRepo(cfg, repoEnvSet, pb) ==
    IF ~repoEnvSet /\ IsString(pb, PastebinKey.Repo)
    THEN pb[PastebinKey.Repo].s ELSE cfg.Repo

PastebinPassword(cfg, passEnvSet, pb) ==
    IF ~passEnvSet /\ IsString(pb, PastebinKey.Password)
    THEN pb[PastebinKey.Password].s ELSE cfg.Password

\* mutant: elements that are not strings are kept, as empty strings
PastebinPathsKeepAll(cfg, pb) ==
    LET v == Lookup(pb, PastebinKey.Paths)
    IN  IF v.t = "array" /\ Len(v.a) > 0
        THEN [i \in 1..Len(v.a) |-> IF v.a[i].t = "string" THEN v.a[i].s ELSE ""]
        ELSE cfg.Paths

PastebinPaths(cfg, pb) ==
    LET v == Lookup(pb, PastebinKey.Paths)
    IN  IF v.t = "array" /\ Len(StringElems(v.a)) > 0
        THEN StringElems(v.a) ELSE cfg.Paths

PastebinNotify(cfg, pb, f) ==
    IF IsString(pb, PastebinKey[f]) THEN pb[PastebinKey[f]].s ELSE cfg[f]

\* mutant: repo and password are taken from the document only when the
\* environment gives neither
ApplyPastebinAsGroup(cfg, repoEnvSet, passEnvSet, pb) ==
    [f \in DOMAIN cfg |->
        CASE f = "Repo" -> PastebinRepo(cfg, repoEnvSet \/ passEnvSet, pb)
          [] f = "Password" -> PastebinPassword(cfg, repoEnvSet \/ passEnvSet, pb)
          [] f = "Paths" -> PastebinPaths(cfg, pb)
          [] OTHER -> PastebinNotify(cfg, pb, f)]

\* the values of a fetched Pastebin document applied to cfg
ApplyPastebin(cfg, repoEnvSet, passEnvSet, pb) ==
    [f \in DOMAIN cfg |->
        CASE f = "Repo" -> PastebinRepo(cfg, repoEnvSet, pb)
          [] f = "Password" -> PastebinPassword(cfg, passEnvSet, pb)
          [] f = "Paths" -> PastebinPaths(cfg, pb)
          [] OTHER -> PastebinNotify(cfg, pb, f)]

\* mutant: every value of config.json is taken, empty or not
ApplyFileAll(cfg, fcfg) ==
    [cfg EXCEPT !.Repo = fcfg.Repo, !.Password = fcfg.Password,
                !.Paths = fcfg.Paths]

\* the non-empty repo, password and paths of config.json applied to cfg
ApplyFile(cfg, fcfg) ==
    [cfg EXCEPT !.Repo = IF fcfg.Repo /= "" THEN fcfg.Repo ELSE @,
                !.Password = IF fcfg.Password /= "" THEN fcfg.Password ELSE @,
                !.Paths = IF Len(fcfg.Paths) > 0 THEN fcfg.Paths ELSE @]

\* what is written as the new cache
CacheData(cfg) == MarshalConfig(cfg)

\* One call of getConfig: the configuration after each step, the requests
\* made, and config.json afterwards.
getConfig(home, env, remote, file, writeOutcome) ==
    LET cfg0 == defaultEmbeddedConfig(home)
        repoEnv == LookupEnv(env, "RESTIC-REPO")
        passEnv == LookupEnv(env, "RESTIC-REPO-PASSWORD")
        cfg1 == ApplyEnv(cfg0, repoEnv, passEnv)
        fetch == NeedFetch(repoEnv.set, passEnv.set)
        got == fetchPastebinConfig(remote)
        cfg2 == IF fetch /\ ~got.err
                THEN ApplyPastebin(cfg1, repoEnv.set, passEnv.set, got.data)
                ELSE cfg1
        rd == ReadFile(file)
        un == UnmarshalConfig(rd.data)
        cfg3 == IF rd.err = "none" /\ un.ok THEN ApplyFile(cfg2, un.cfg) ELSE cfg2
        writes == rd.err = "notexist"
    IN  [result |-> cfg3,
         envStep |-> cfg1,
         remoteStep |-> cfg2,
         requests |-> IF fetch THEN <<pastebinURL>> ELSE <<>>,
         fetched |-> fetch /\ ~got.err,
         writes |-> writes,
         file |-> IF writes THEN WriteFile(file, CacheData(cfg3), writeOutcome)
                  ELSE file]

----------------------------------------------------------------------------
(* The environments, Pastebin responses and files the model draws from     *)

EnvNames == {"RESTIC-REPO", "RESTIC-REPO-PASSWORD"}

Homes == {"/home/u", "/home/" \o BadByte}
RepoEnvValues == {Unset, SetTo(""), SetTo("envrepo"), SetTo("env" \o BadByte)}
PassEnvValues == {Unset, SetTo(""), SetTo("envpass")}

Envs ==
    {[n \in EnvNames |-> IF n = "RESTIC-REPO" THEN x[1] ELSE x[2]] :
        x \in RepoEnvValues \X PassEnvValues}

\* a key left out of a document
Missing == [t |-> "missing"]

\* the object with the given values under the given keys, Missing ones left out
ObjectOf(vals) == [key \in {k \in DOMAIN vals : vals[k] /= Missing} |-> vals[key]]

NotifyAll ==
    [PushoverToken |-> JStr("pt"), PushoverUser |-> JStr("pu"),
     EmailServer |-> JStr("es"), EmailUser |-> JStr("eu"),
     EmailPassword |-> JStr("ep"), EmailFrom |-> JStr("ef"),
     EmailTo |-> JStr("et")]
NotifyNone == [f \in NotifyFields |-> Missing]
NotifyMixedA ==
    [PushoverToken |-> JStr("pt"), PushoverUser |-> JNum,
     EmailServer |-> JNull, EmailUser |-> JStr("eu"),
     EmailPassword |-> JArr(<<JStr("ep")>>), EmailFrom |-> JStr("ef"),
     EmailTo |-> Missing]
NotifyMixedB ==
    [PushoverToken |-> JNum, PushoverUser |-> JStr("pu"),
     EmailServer |-> JStr("es"), EmailUser |-> Missing,
     EmailPassword |-> JStr("ep"), EmailFrom |-> JNull,
     EmailTo |-> JStr("et")]
NotifyPatterns == {NotifyNone, NotifyAll, NotifyMixedA, NotifyMixedB}

PastebinRepoValues == {Missing, JStr("pb-repo"), JNum}
PastebinPasswordValues == {Missing, JStr("pb-pass"), JNull}
PastebinPathsValues ==
    {Missing, JStr("/a"), JArr(<<>>), JArr(<<JNum>>),
     JArr(<<JStr("/a"), JStr("/b")>>), JArr(<<JStr("/b"), JNum, JStr("/a")>>)}

PastebinDoc(repo, password, paths, notify) ==
    ObjectOf([key \in {PastebinKey[f] : f \in DOMAIN PastebinKey} |->
        CASE key = PastebinKey.Repo -> repo
          [] key = PastebinKey.Password -> password
          [] key = PastebinKey.Paths -> paths
          [] OTHER -> notify[CHOOSE f \in NotifyFields : PastebinKey[f] = key]])

\* every repo, password and paths value without notification fields, and the
\* document of TestGetConfigFromPastebin with every notification pattern
PastebinDocs ==
    {PastebinDoc(x[1], x[2], x[3], NotifyNone) :
        x \in PastebinRepoValues \X PastebinPasswordValues \X PastebinPathsValues}
    \cup {PastebinDoc(JStr("pb-repo"), JStr("pb-pass"),
                      JArr(<<JStr("/a"), JStr("/b")>>), n) : n \in NotifyPatterns}
    \cup {PastebinDoc(JNum, JStr("pb-pass"),
                      JArr(<<JStr("/b"), JNum, JStr("/a")>>), NotifyMixedA)}

Response(status, body) == [kind |-> "response", status |-> status, body |-> body]
TransportError == [kind |-> "transport"]
StatusInternalServerError == 500

Remotes ==
    {TransportError,
     Response(StatusInternalServerError,
              JObject(PastebinDoc(JStr("pb-repo"), JStr("pb-pass"),
                                  JArr(<<JStr("/a"), JStr("/b")>>), NotifyAll))),
     Response(StatusOK, JInvalid), Response(StatusOK, JTopNull),
     Response(StatusOK, JTopArray)}
    \cup {Response(StatusOK, JObject(d)) : d \in PastebinDocs}

FileRepoValues == {Missing, JStr(""), JStr("filerepo")}
FilePasswordValues == {JStr(""), JStr("filepass")}
FilePathsValues ==
    {Missing, JArr(<<>>), JArr(<<JStr("/x"), JStr("/y")>>), JArr(<<JNull>>)}

FileDocs ==
    {ObjectOf([repo |-> x[1], password |-> x[2], paths |-> x[3]]) :
        x \in FileRepoValues \X FilePasswordValues \X FilePathsValues}
    \cup {ObjectOf([repo |-> JStr("filerepo"), password |-> JStr("filepass"),
                    paths |-> JArr(<<JStr("/x"), JNum>>)]),
          ObjectOf([repo |-> JStr("filerepo"), password |-> JNum])}

\* what a user or a test can leave at config.json
ExternalFiles ==
    {Unreadable, FileWith(JInvalid), FileWith(JTopNull), FileWith(JTopArray)}
    \cup {FileWith(JObject(d)) : d \in FileDocs}

WriteOutcomes == {"ok", "open-fails", "write-fails"}

----------------------------------------------------------------------------
(* downloadRestic                                                          *)

releaseURL == "https://api.github.com/repos/restic/restic/releases/latest"

\* strings.TrimPrefix(s, prefix)
TrimPrefix(s, prefix) ==
    IF Len(s) >= Len(prefix) /\ SubSeq(s, 1, Len(prefix)) = prefix
    THEN SubSeq(s, Len(prefix) + 1, Len(s))
    ELSE s

\* the archive extension of the platform
Ext(goos) == IF goos = "windows" THEN ".zip" ELSE ".bz2"

\* fmt.Sprintf("restic_%s_%s_%s%s", version, goos, arch, ext)
TargetName(version, goos, arch, ext) ==
    "restic_" \o version \o "_" \o goos \o "_" \o arch \o ext

RECURSIVE LastMatchURL(_, _)
\* mutant: the loop does not stop at the first match
LastMatchURL(assets, targetName) ==
    IF assets = <<>> THEN ""
    ELSE IF assets[Len(assets)].Name = targetName
         THEN assets[Len(assets)].BrowserDownloadURL
         ELSE LastMatchURL(SubSeq(assets, 1, Len(assets) - 1), targetName)

RECURSIVE FirstMatchURL(_, _)
\* the loop over rel.Assets: the URL of the first asset named targetName
FirstMatchURL(assets, targetName) ==
    IF assets = <<>> THEN ""
    ELSE IF Head(assets).Name = targetName THEN Head(assets).BrowserDownloadURL
    ELSE FirstMatchURL(Tail(assets), targetName)

\* json.NewDecoder(resp.Body).Decode(&rel), rel a release
DecodeRelease(body) ==
    CASE body.k = "release" -> [err |-> FALSE, rel |-> body.rel]
      [] body.k = "null" -> [err |-> FALSE, rel |-> [TagName |-> "", Assets |-> <<>>]]
      [] OTHER -> [err |-> TRUE, rel |-> [TagName |-> "", Assets |-> <<>>]]

\* ./bin and ./bin/restic[.exe]
EmptyBin == [dir |-> FALSE, restic |-> "absent"]

\* the zip branch: the first entry named restic.exe is copied to resticPath
ExtractZip(b, archive, openOk) ==
    IF archive.format /= "zip" THEN [err |-> "zip", bin |-> b]
    ELSE IF ~\E i \in 1..Len(archive.entries) : archive.entries[i] = "restic.exe"
    THEN [err |-> "nil", bin |-> b]
    ELSE IF ~openOk THEN [err |-> "open", bin |-> b]
    ELSE IF archive.corrupt
    THEN [err |-> "copy", bin |-> [b EXCEPT !.restic = "partial"]]
    ELSE [err |-> "nil", bin |-> [b EXCEPT !.restic = "complete"]]

\* the bzip2 branch: the whole stream is decompressed to resticPath
ExtractBz2(b, archive, openOk) ==
    IF ~openOk THEN [err |-> "open", bin |-> b]
    ELSE IF archive.format /= "bz2" \/ archive.corrupt
    THEN [err |-> "copy", bin |-> [b EXCEPT !.restic = "partial"]]
    ELSE [err |-> "nil", bin |-> [b EXCEPT !.restic = "complete"]]

\* One call of downloadRestic: the error returned, the requests made, the
\* target name and URL computed, and ./bin afterwards.
downloadRestic(goos, arch, meta, download, mkdirOk, openOk, b) ==
    LET dec == DecodeRelease(meta.body)
        version == TrimPrefix(dec.rel.TagName, "v")
        ext == Ext(goos)
        targetName == TargetName(version, goos, arch, ext)
        downloadURL == FirstMatchURL(dec.rel.Assets, targetName)
        b1 == [b EXCEPT !.dir = TRUE]
        ex == IF ext = ".zip" THEN ExtractZip(b1, download.body, openOk)
              ELSE ExtractBz2(b1, download.body, openOk)
        Ret(err, reqs, name, url, after) ==
            [err |-> err, requests |-> reqs, targetName |-> name,
             downloadURL |-> url, bin |-> after]
    IN  CASE meta.kind = "transport" -> Ret("request", <<releaseURL>>, "", "", b)
          [] meta.status /= StatusOK -> Ret("status", <<releaseURL>>, "", "", b)
          [] dec.err -> Ret("decode", <<releaseURL>>, "", "", b)
          [] downloadURL = "" ->
                Ret("not found", <<releaseURL>>, targetName, downloadURL, b)
          [] download.kind = "transport" ->
                Ret("request", <<releaseURL, downloadURL>>, targetName, downloadURL, b)
          [] download.status /= StatusOK ->
                Ret("download failed", <<releaseURL, downloadURL>>, targetName,
                    downloadURL, b)
          [] ~mkdirOk ->
                Ret("mkdir", <<releaseURL, downloadURL>>, targetName, downloadURL, b)
          [] OTHER ->
                Ret(ex.err, <<releaseURL, downloadURL>>, targetName, downloadURL,
                    ex.bin)

----------------------------------------------------------------------------
(* The releases and downloads the model draws from                         *)

MaxAssets == 2

Platforms == {<<"linux", "amd64">>, <<"windows", "amd64">>}
Tags == {"v1.0.0", "1.0.0", "vv1.0.0"}
AssetNames ==
    {"restic_1.0.0_linux_amd64.bz2", "restic_1.0.0_windows_amd64.zip",
     "restic_v1.0.0_linux_amd64.bz2", "restic_1.0.0_linux_amd64.bz2.asc"}
AssetURLs == {"", "https://downloads/a", "https://downloads/b"}
Assets == {[Name |-> x[1], BrowserDownloadURL |-> x[2]] : x \in AssetNames \X AssetURLs}

RECURSIVE SeqsUpTo(_, _)
\* the sequences over S of length at most n
SeqsUpTo(S, n) ==
    IF n = 0 THEN {<<>>}
    ELSE SeqsUpTo(S, n - 1)
         \cup {Append(q, e) : q \in {r \in SeqsUpTo(S, n - 1) : Len(r) = n - 1}, e \in S}

Releases == {[TagName |-> x[1], Assets |-> x[2]] : x \in Tags \X SeqsUpTo(Assets, MaxAssets)}

MetaResponses ==
    {TransportError, Response(StatusInternalServerError, JInvalid),
     Response(StatusOK, JInvalid), Response(StatusOK, JTopNull)}
    \cup {Response(StatusOK, [k |-> "release", rel |-> r]) : r \in Releases}

\* a response body: its format, the entries of a zip, and whether its
\* compressed data is corrupt
Archive(format, entries, corrupt) ==
    [format |-> format, entries |-> entries, corrupt |-> corrupt]

Archives ==
    {Archive("bz2", <<>>, FALSE), Archive("bz2", <<>>, TRUE),
     Archive("zip", <<"LICENSE", "restic.exe">>, FALSE),
     Archive("zip", <<"restic.exe">>, TRUE),
     Archive("zip", <<"restic_1.0.0_windows_amd64.exe">>, FALSE),
     Archive("none", <<>>, FALSE)}

DownloadResponses ==
    {TransportError, Response(StatusInternalServerError, Archive("none", <<>>, FALSE))}
    \cup {Response(StatusOK, a) : a \in Archives}

NoCall == [none |-> TRUE]

----------------------------------------------------------------------------
(* The processes: each run of the program calls getConfig once             *)

NoRun == [none |-> TRUE]

\* the two concurrent processes, and a process that has not called getConfig
Procs == {1, 2}
NotStarted ==
    [pc |-> "start", env |-> [n \in EnvNames |-> Unset], remote |-> TransportError,
     saw |-> "", cfg |-> ZeroConfig]
NotCached == [has |-> FALSE, cfg |-> ZeroConfig]

Init ==
    /\ cfgFile = Absent
    /\ cached = NotCached
    /\ pc = "idle"
    /\ run = NoRun
    /\ bin = EmptyBin
    /\ dl = NoCall
    /\ io = <<>>
    /\ mainCfg = ZeroConfig
    /\ repos = {}
    /\ platform = <<"linux", "amd64">>
    /\ call = NoCall
    /\ procs = [p \in Procs |-> NotStarted]

\* a process calls getConfig; the outcome of os.WriteFile is drawn only when
\* config.json is absent, the one case in which it is called
GetConfig ==
    /\ pc = "idle"
    /\ \E home \in Homes, env \in Envs, remote \in Remotes, w \in WriteOutcomes :
         LET out == getConfig(home, env, remote, cfgFile, w)
         IN  /\ w /= "ok" => cfgFile = Absent
             /\ run' = [home |-> home, env |-> env, remote |-> remote,
                        file |-> cfgFile, writeOutcome |-> w, out |-> out]
             /\ cfgFile' = out.file
             /\ cached' = IF out.writes
                          THEN (IF w = "ok" THEN [has |-> TRUE, cfg |-> out.result]
                                ELSE NotCached)
                          ELSE cached
    /\ pc' = "done"
    /\ UNCHANGED <<releaseVars, mainVars>>

\* the process ends; its configuration is gone, config.json stays
Exit ==
    /\ pc = "done"
    /\ pc' = "idle"
    /\ run' = NoRun
    /\ UNCHANGED <<cfgFile, cached, releaseVars, mainVars>>

\* between runs, config.json is written by someone else
WriteConfigFile ==
    /\ pc = "idle"
    /\ \E f \in ExternalFiles : cfgFile' = f
    /\ cached' = NotCached
    /\ UNCHANGED <<pc, run, releaseVars, mainVars>>

\* between runs, config.json is removed
RemoveConfigFile ==
    /\ pc = "idle"
    /\ cfgFile /= Absent
    /\ cfgFile' = Absent
    /\ cached' = NotCached
    /\ UNCHANGED <<pc, run, releaseVars, mainVars>>

NextConfig == GetConfig \/ Exit \/ WriteConfigFile \/ RemoveConfigFile

SpecConfig == Init /\ [][NextConfig]_vars

\* downloadRestic is called when the executable is not there
DownloadRestic ==
    /\ pc = "idle"
    /\ bin.restic = "absent"
    /\ \E p \in Platforms, meta \in MetaResponses, download \in DownloadResponses,
          mkdirOk \in BOOLEAN, openOk \in BOOLEAN :
         LET out == downloadRestic(p[1], p[2], meta, download, mkdirOk, openOk, bin)
         IN  /\ dl' = [goos |-> p[1], arch |-> p[2], meta |-> meta,
                       download |-> download, mkdirOk |-> mkdirOk,
                       openOk |-> openOk, before |-> bin, out |-> out]
             /\ bin' = out.bin
    /\ pc' = "downloaded"
    /\ UNCHANGED <<configVars, mainVars>>

\* the caller is done; a test starts over in a fresh directory
Reset ==
    /\ pc = "downloaded"
    /\ pc' = "idle"
    /\ dl' = NoCall
    /\ bin' = EmptyBin
    /\ UNCHANGED <<configVars, mainVars>>

NextRelease == DownloadRestic \/ Reset

SpecRelease == Init /\ [][NextRelease]_vars

----------------------------------------------------------------------------
(* What the last getConfig call was given, read off its raw inputs         *)

RepoEnv == run.env["RESTIC-REPO"]
PassEnv == run.env["RESTIC-REPO-PASSWORD"]
BothSet == RepoEnv.set /\ PassEnv.set
NoneSet == ~RepoEnv.set /\ ~PassEnv.set

\* the response is a 200 whose body decodes into a map
RemoteUsable ==
    /\ run.remote.kind = "response"
    /\ run.remote.status = 200
    /\ run.remote.body.k \in {"object", "null"}
FetchSucceeds == ~BothSet /\ RemoteUsable
RemoteDoc ==
    IF RemoteUsable /\ run.remote.body.k = "object" THEN run.remote.body.o ELSE <<>>
RemoteHasString(key) ==
    FetchSucceeds /\ key \in DOMAIN RemoteDoc /\ RemoteDoc[key].t = "string"
RemoteHasArray(key) ==
    FetchSucceeds /\ key \in DOMAIN RemoteDoc /\ RemoteDoc[key].t = "array"

RECURSIVE StringsOf(_)
\* the string elements of a JSON array, in order
StringsOf(a) ==
    IF a = <<>> THEN <<>>
    ELSE IF Head(a).t = "string" THEN <<Head(a).s>> \o StringsOf(Tail(a))
    ELSE StringsOf(Tail(a))

FileParses == run.file.k = "data" /\ UnmarshalConfig(run.file.data).ok
FileObj ==
    IF run.file.k = "data" /\ run.file.data.k = "object" THEN run.file.data.o
    ELSE <<>>
FileString(key) ==
    IF key \in DOMAIN FileObj /\ FileObj[key].t = "string" THEN FileObj[key].s
    ELSE ""
FilePaths ==
    IF "paths" \in DOMAIN FileObj /\ FileObj["paths"].t = "array"
    THEN [i \in 1..Len(FileObj["paths"].a) |->
            IF FileObj["paths"].a[i].t = "string" THEN FileObj["paths"].a[i].s
            ELSE ""]
    ELSE <<>>

DefaultRepo == "~/tmp/test-backup"
DefaultPassword == "test password"
DefaultPaths ==
    <<run.home \o "/Documents", run.home \o "/Pictures", run.home \o "/Desktop">>

\* environment value if set, else the remote string, else the default
FromEnvRemoteDefault(e, key, default) ==
    IF e.set THEN e.val
    ELSE IF RemoteHasString(key) THEN RemoteDoc[key].s
    ELSE default

----------------------------------------------------------------------------
(* Claims                                                                  *)

\* C1: getConfig requests the remote document zero times when both
\* RESTIC-REPO and RESTIC-REPO-PASSWORD are set (also when set to the empty
\* string), and exactly once, at pastebinURL, when at least one is unset.
C1_FetchIffSomeEnvUnset ==
    pc = "done" =>
        run.out.requests = IF BothSet THEN <<>> ELSE <<pastebinURL>>

\* C1 witness: both variables set, one of them to the empty string, no request.
C1_Witness ==
    /\ pc = "done"
    /\ RepoEnv = SetTo("") /\ PassEnv.set
    /\ run.out.requests = <<>>

\* C2: without config.json, repo and password are decided independently:
\* the environment value if that variable is set, else the remote string if
\* the fetch succeeded, else the embedded default.
C2_PerFieldPrecedence ==
    pc = "done" /\ run.file = Absent =>
        /\ run.out.result.Repo
             = FromEnvRemoteDefault(RepoEnv, "restic-repo", DefaultRepo)
        /\ run.out.result.Password
             = FromEnvRemoteDefault(PassEnv, "restic-repo-password", DefaultPassword)

\* C2 witness: repo from the environment, password from the remote document.
C2_Witness ==
    /\ pc = "done" /\ run.file = Absent
    /\ RepoEnv = SetTo("envrepo") /\ ~PassEnv.set
    /\ RemoteHasString("restic-repo") /\ RemoteHasString("restic-repo-password")
    /\ run.out.result.Repo = "envrepo"
    /\ run.out.result.Password = "pb-pass"

\* C3: whenever RESTIC-REPO (RESTIC-REPO-PASSWORD) is set, the returned Repo
\* (Password) is the environment value, whatever the remote document and
\* config.json contain.
C3_EnvOverridesAll ==
    pc = "done" =>
        /\ RepoEnv.set => run.out.result.Repo = RepoEnv.val
        /\ PassEnv.set => run.out.result.Password = PassEnv.val

C5_NeverFails ==
    pc = "done" =>
        /\ DOMAIN run.out.result = DOMAIN ZeroConfig
        /\ ~FetchSucceeds => run.out.remoteStep = run.out.envStep
        /\ NoneSet /\ ~FetchSucceeds /\ ~FileParses =>
             run.out.result
               = [ZeroConfig EXCEPT !.Repo = DefaultRepo,
                                    !.Password = DefaultPassword,
                                    !.Paths = DefaultPaths]

\* C5 witness: a 500 response, no variable set, an unparseable config.json.
C5_Witness ==
    /\ pc = "done"
    /\ NoneSet
    /\ run.remote.kind = "response" /\ run.remote.status = 500
    /\ run.file = FileWith(JInvalid)
    /\ run.out.result.Repo = DefaultRepo

\* no byte of s is invalid UTF-8
ValidUTF8(s) == \A i \in 1..Len(s) : SubSeq(s, i, i) /= BadByte

\* a later process reads the config.json an earlier call of getConfig
\* created, with no variable set and a failing fetch
RereadsCache ==
    /\ pc = "done"
    /\ cached.has /\ run.file.k = "data"
    /\ NoneSet /\ ~FetchSucceeds

\* C6 as stated: the later run returns repo, password and paths identical to
\* those of the configuration that was written.
C6_RoundTrip ==
    RereadsCache =>
        /\ run.out.result.Repo = cached.cfg.Repo
        /\ run.out.result.Password = cached.cfg.Password
        /\ run.out.result.Paths = cached.cfg.Paths

\* C6 amended: a repo or password that is non-empty valid UTF-8 comes back
\* identical, an empty one comes back as the embedded default; paths that
\* are valid UTF-8 come back identical.
C6_RoundTripNonEmptyValid ==
    RereadsCache =>
        /\ cached.cfg.Repo /= "" /\ ValidUTF8(cached.cfg.Repo) =>
             run.out.result.Repo = cached.cfg.Repo
        /\ cached.cfg.Repo = "" => run.out.result.Repo = DefaultRepo
        /\ cached.cfg.Password /= "" /\ ValidUTF8(cached.cfg.Password) =>
             run.out.result.Password = cached.cfg.Password
        /\ cached.cfg.Password = "" => run.out.result.Password = DefaultPassword
        /\ (\A i \in 1..Len(cached.cfg.Paths) : ValidUTF8(cached.cfg.Paths[i])) =>
             run.out.result.Paths = cached.cfg.Paths

\* C6 witness: a configuration taken from the remote document is re-read.
C6_Witness ==
    /\ RereadsCache
    /\ cached.cfg.Repo = "pb-repo" /\ cached.cfg.Password = "pb-pass"
    /\ cached.cfg.Paths = <<"/a", "/b">>
    /\ run.out.result.Repo = "pb-repo" /\ run.out.result.Password = "pb-pass"
    /\ run.out.result.Paths = <<"/a", "/b">>

\* C7: the config.json getConfig writes holds only repo, password and paths;
\* no notification credential from the remote document is persisted.
C7_NoCredentialsCached ==
    cached.has /\ cfgFile.k = "data" /\ cfgFile.data.k = "object" =>
        /\ DOMAIN cfgFile.data.o \subseteq {"repo", "password", "paths"}
        /\ \A f \in NotifyFields :
             Lookup(cfgFile.data.o, Tag[f]) \in {JNull, JStr("")}

\* C8 as stated: repo and password form one group; when the environment
\* gives only one of the two, the other is not filled in from the remote
\* document.
C8_GroupNotMixed ==
    pc = "done" /\ RepoEnv.set /= PassEnv.set =>
        /\ run.out.remoteStep.Repo = run.out.envStep.Repo
        /\ run.out.remoteStep.Password = run.out.envStep.Password

\* the file's value if config.json parses and the value is non-empty
FileElse(fileValue, lower) ==
    IF FileParses /\ fileValue /= "" THEN fileValue ELSE lower

\* C8 amended: repo and password are resolved independently of each other;
\* each is the value of the highest-ranking source that supplies it (a
\* non-empty value of config.json, else the environment variable if set,
\* else a string of the fetched document, else the default), so the two may
\* come from different sources.
C8_PerFieldNotGroup ==
    pc = "done" =>
        /\ run.out.result.Repo
             = FileElse(FileString("repo"),
                        FromEnvRemoteDefault(RepoEnv, "restic-repo", DefaultRepo))
        /\ run.out.result.Password
             = FileElse(FileString("password"),
                        FromEnvRemoteDefault(PassEnv, "restic-repo-password",
                                             DefaultPassword))

\* C8 witness: repo from the environment, password from config.json.
C8_Witness ==
    /\ pc = "done" /\ FileParses
    /\ RepoEnv = SetTo("envrepo") /\ ~PassEnv.set
    /\ FileString("repo") = "" /\ FileString("password") = "filepass"
    /\ RemoteHasString("restic-repo-password")
    /\ run.out.result.Repo = "envrepo"
    /\ run.out.result.Password = "filepass"

\* the value a notification field has after a successful fetch
NotifyAfterFetch(f) ==
    IF RemoteHasString(PastebinKey[f]) THEN RemoteDoc[PastebinKey[f]].s
    ELSE run.out.envStep[f]

\* C9 as stated: after a successful fetch, for every remote paths array, of
\* any length, the paths before the file step are its string elements in
\* order; every notification field that is a string replaces the value.
C9_RemotePathsAnyLength ==
    pc = "done" /\ FetchSucceeds =>
        /\ RemoteHasArray("paths") =>
             run.out.remoteStep.Paths = StringsOf(RemoteDoc["paths"].a)
        /\ \A f \in NotifyFields : run.out.remoteStep[f] = NotifyAfterFetch(f)

\* C9 amended: the remote paths array replaces the paths when it has at
\* least one string element (its string elements in order, others dropped);
\* an array without string elements, like a value that is no array, leaves
\* the paths unchanged; each notification field that is a string replaces
\* the value and any other type leaves that field unchanged.
C9_RemotePathsNonEmpty ==
    pc = "done" /\ FetchSucceeds =>
        /\ run.out.remoteStep.Paths
             = IF RemoteHasArray("paths") /\ StringsOf(RemoteDoc["paths"].a) /= <<>>
               THEN StringsOf(RemoteDoc["paths"].a)
               ELSE run.out.envStep.Paths
        /\ \A f \in NotifyFields : run.out.remoteStep[f] = NotifyAfterFetch(f)

\* C9 witness: RESTIC-REPO set, an array with a number between two strings,
\* notification fields of mixed types.
C9_Witness ==
    /\ pc = "done" /\ FetchSucceeds /\ RepoEnv.set
    /\ Lookup(RemoteDoc, "paths") = JArr(<<JStr("/b"), JNum, JStr("/a")>>)
    /\ run.out.remoteStep.Paths = <<"/b", "/a">>
    /\ Lookup(RemoteDoc, "pushover-user") = JNum
    /\ run.out.remoteStep.PushoverToken = "pt"
    /\ run.out.remoteStep.PushoverUser = ""

----------------------------------------------------------------------------
(* What the last downloadRestic call was given, read off its raw inputs    *)

MetaDecodes ==
    /\ dl.meta.kind = "response"
    /\ dl.meta.status = 200
    /\ dl.meta.body.k \in {"release", "null"}
Rel ==
    IF dl.meta.body.k = "release" THEN dl.meta.body.rel
    ELSE [TagName |-> "", Assets |-> <<>>]

\* the tag with one leading "v" removed
ExpectedVersion ==
    IF Len(Rel.TagName) > 0 /\ SubSeq(Rel.TagName, 1, 1) = "v"
    THEN SubSeq(Rel.TagName, 2, Len(Rel.TagName))
    ELSE Rel.TagName

ExpectedTarget ==
    "restic_" \o ExpectedVersion \o "_" \o dl.goos \o "_" \o dl.arch
        \o (IF dl.goos = "windows" THEN ".zip" ELSE ".bz2")

\* the positions of the assets whose name is the target
Matches == {i \in 1..Len(Rel.Assets) : Rel.Assets[i].Name = ExpectedTarget}

\* C10: the target name is restic_<version>_<os>_<arch><ext>, version the
\* tag without one leading "v", ext .zip on windows and .bz2 otherwise; the
\* URL chosen is that of the first asset named exactly so; when no asset
\* name matches, downloadRestic returns the not-found error after the
\* metadata request alone and leaves ./bin as it was.
C10_ReleaseResolution ==
    pc = "downloaded" /\ MetaDecodes =>
        /\ dl.out.targetName = ExpectedTarget
        /\ \A i \in Matches :
             (\A j \in Matches : i <= j) =>
                dl.out.downloadURL = Rel.Assets[i].BrowserDownloadURL
        /\ Matches = {} =>
             /\ dl.out.err = "not found"
             /\ dl.out.requests = <<releaseURL>>
             /\ dl.out.bin = dl.before
             /\ dl.out.bin.restic = "absent"

\* C10 witness: tag v1.0.0 on linux/amd64, two assets with the target name;
\* the first one's URL is requested and the executable is written.
C10_Witness ==
    /\ pc = "downloaded" /\ MetaDecodes
    /\ dl.goos = "linux" /\ Rel.TagName = "v1.0.0"
    /\ Len(Rel.Assets) = 2
    /\ Rel.Assets[1] = [Name |-> "restic_1.0.0_linux_amd64.bz2",
                        BrowserDownloadURL |-> "https://downloads/b"]
    /\ Rel.Assets[2] = [Name |-> "restic_1.0.0_linux_amd64.bz2",
                        BrowserDownloadURL |-> "https://downloads/a"]
    /\ dl.out.targetName = "restic_1.0.0_linux_amd64.bz2"
    /\ dl.out.requests = <<releaseURL, "https://downloads/b">>
    /\ dl.out.err = "nil" /\ dl.out.bin.restic = "complete"

----------------------------------------------------------------------------
(* What a process does to the outside: lines printed, requests sent,       *)
(* files written, programs executed, the exit status                       *)

Stdout(text) == [op |-> "stdout", text |-> text]
Stderr(text) == [op |-> "stderr", text |-> text]
HttpGet(url) == [op |-> "get", url |-> url]
\* os.WriteFile(path, ...) and how it went
FileWrite(path, outcome) == [op |-> "write", path |-> path, outcome |-> outcome]
\* cmd.Run() of exec.Command(path, args...): env is RESTIC_PASSWORD as
\* appended to os.Environ(), err whether Run returned an error
Exec(path, args, env, err) ==
    [op |-> "exec", path |-> path, args |-> args, env |-> env, err |-> err]
\* os.Stat(path) and the error it returned
StatCall(path, err) == [op |-> "stat", path |-> path, err |-> err]
\* scanner.Scan() on the input
ReadLine == [op |-> "readline"]
OsExit(code) == [op |-> "exit", code |-> code]

\* strings.HasPrefix(s, prefix)
HasPrefix(s, prefix) == Len(s) >= Len(prefix) /\ SubSeq(s, 1, Len(prefix)) = prefix

\* filepath.Join(dir, name) for clean elements
Join(dir, name) ==
    IF dir = "" THEN name ELSE IF name = "" THEN dir ELSE dir \o "/" \o name

\* os.Stat(path): the file is there or not; a path that cannot be searched
\* gives an error that is not a not-exist error
Stat(exists, searchable) ==
    IF ~searchable THEN "other" ELSE IF exists THEN "none" ELSE "notexist"

----------------------------------------------------------------------------
(* expandUser, ensureRepo, runBackup                                       *)

\* expandUser(p); home, homeErr are what os.UserHomeDir() returns
expandUser(p, home, homeErr) ==
    IF HasPrefix(p, "~") /\ ~homeErr THEN Join(home, TrimPrefix(p, "~/")) ELSE p

\* mutant: the result of init is dropped
ensureRepoNoError(resticPath, repo, password, home, homeErr, statErr, runErr) ==
    LET repoPath == expandUser(repo, home, homeErr)
    IN  IF statErr = "none"
        THEN [err |-> FALSE, repoPath |-> repoPath,
              effects |-> <<StatCall(Join(repoPath, "config"), statErr),
                            Stdout("restic repository found at " \o repoPath)>>]
        ELSE [err |-> FALSE, repoPath |-> repoPath,
              effects |-> <<StatCall(Join(repoPath, "config"), statErr),
                            Stdout("initializing restic repository at " \o repoPath),
                            Exec(resticPath, <<"-r", repoPath, "init">>,
                                 SetTo(password), runErr)>>]

\* mutant: a failed init is tried a second time
ensureRepoRetry(resticPath, repo, password, home, homeErr, statErr, runErr) ==
    LET repoPath == expandUser(repo, home, homeErr)
        init == Exec(resticPath, <<"-r", repoPath, "init">>, SetTo(password), runErr)
    IN  IF statErr = "none"
        THEN [err |-> FALSE, repoPath |-> repoPath,
              effects |-> <<StatCall(Join(repoPath, "config"), statErr),
                            Stdout("restic repository found at " \o repoPath)>>]
        ELSE [err |-> runErr, repoPath |-> repoPath,
              effects |-> <<StatCall(Join(repoPath, "config"), statErr),
                            Stdout("initializing restic repository at " \o repoPath),
                            init>> \o (IF runErr THEN <<init>> ELSE <<>>)]

\* One call of ensureRepo: the error returned, the expanded path, and what it
\* printed and executed.  statErr is what os.Stat of <repoPath>/config
\* returns, runErr whether cmd.Run() of init returns an error.
ensureRepo(resticPath, repo, password, home, homeErr, statErr, runErr) ==
    LET repoPath == expandUser(repo, home, homeErr)
    IN  IF statErr = "none"
        THEN [err |-> FALSE, repoPath |-> repoPath,
              effects |-> <<StatCall(Join(repoPath, "config"), statErr),
                            Stdout("restic repository found at " \o repoPath)>>]
        ELSE [err |-> runErr, repoPath |-> repoPath,
              effects |-> <<StatCall(Join(repoPath, "config"), statErr),
                            Stdout("initializing restic repository at " \o repoPath),
                            Exec(resticPath, <<"-r", repoPath, "init">>,
                                 SetTo(password), runErr)>>]

\* bufio.ScanLines on the first call: the text before the first newline,
\* without a trailing carriage return; "" when there is no input
FirstLine(text) ==
    LET nl == {i \in 1..Len(text) : SubSeq(text, i, i) = "\n"}
        end == IF nl = {} THEN Len(text)
               ELSE (CHOOSE i \in nl : \A j \in nl : i <= j) - 1
        line == SubSeq(text, 1, end)
    IN  IF Len(line) > 0 /\ SubSeq(line, Len(line), Len(line)) = "\r"
        THEN SubSeq(line, 1, Len(line) - 1)
        ELSE line

WhiteSpace == {" ", "\t", "\n", "\r"}

RECURSIVE TrimSpace(_)
\* strings.TrimSpace(s)
TrimSpace(s) ==
    IF s = "" THEN s
    ELSE IF SubSeq(s, 1, 1) \in WhiteSpace THEN TrimSpace(SubSeq(s, 2, Len(s)))
    ELSE IF SubSeq(s, Len(s), Len(s)) \in WhiteSpace
    THEN TrimSpace(SubSeq(s, 1, Len(s) - 1))
    ELSE s

UpperCase == "ABCDEFGHIJKLMNOPQRSTUVWXYZ"
LowerCase == "abcdefghijklmnopqrstuvwxyz"

RECURSIVE ToLower(_)
\* strings.ToLower(s) on ASCII
ToLower(s) ==
    IF s = "" THEN s
    ELSE LET c == SubSeq(s, 1, 1)
             at == {i \in 1..Len(UpperCase) : SubSeq(UpperCase, i, i) = c}
             lc == IF at = {} THEN c
                   ELSE LET i == CHOOSE j \in at : TRUE IN SubSeq(LowerCase, i, i)
         IN  lc \o ToLower(SubSeq(s, 2, Len(s)))

\* mutant: the answer is compared as typed
ConfirmedExact(input) == TrimSpace(FirstLine(input)) = "y"

\* strings.ToLower(strings.TrimSpace(scanner.Text())) == "y"
Confirmed(input) == ToLower(TrimSpace(FirstLine(input))) = "y"

\* the lines " - p" for the configured paths
PathLines(paths) == [i \in 1..Len(paths) |-> Stdout(" - " \o paths[i])]

\* One call of runBackup with out = os.Stdout: the error returned and what it
\* printed, read and executed.  input is the text on in, runErr whether
\* cmd.Run() of backup returns an error.
runBackup(resticPath, c, input, home, homeErr, runErr) ==
    LET prompt == <<Stdout("paths to backup:")>> \o PathLines(c.Paths)
                  \o <<Stdout("proceed with backup? [y/N]: "), ReadLine>>
        backup == Exec(resticPath,
                       <<"-r", expandUser(c.Repo, home, homeErr), "backup">> \o c.Paths,
                       SetTo(c.Password), runErr)
    IN  IF ~Confirmed(input)
        THEN [err |-> FALSE, effects |-> prompt \o <<Stdout("backup aborted")>>]
        ELSE IF runErr
        THEN [err |-> TRUE, effects |-> prompt \o <<backup>>]
        ELSE [err |-> FALSE,
              effects |-> prompt \o <<backup, Stdout("backup completed")>>]

----------------------------------------------------------------------------
(* main                                                                    *)

AutoStartOutcomes == {"ok", "executable", "abs", "home", "mkdir", "last"}

\* ensureAutoStart(): what it prints, executes and writes.  outcome names
\* the call that fails, if any; "last" is the failure of reg or of
\* os.WriteFile, whose results are dropped.
ensureAutoStart(goos, home, outcome) ==
    CASE outcome \in {"executable", "abs"} ->
            <<Stderr("auto-start: " \o outcome \o ": error")>>
      [] goos = "windows" ->
            <<Exec("reg", <<"add", "/v", "backup">>, Unset, outcome = "last")>>
      [] outcome \in {"home", "mkdir"} ->
            <<Stderr("auto-start: " \o outcome \o ": error")>>
      [] OTHER ->
            <<FileWrite(Join(Join(home, ".config/autostart"), "backup.desktop"),
                        IF outcome = "last" THEN "open-fails" ELSE "ok")>>

\* filepath.Join(filepath.Join(".", "bin"), resticName)
ResticPath(goos) == Join("bin", IF goos = "windows" THEN "restic.exe" ELSE "restic")

\* the requests of a call, as effects
Requests(urls) == [i \in 1..Len(urls) |-> HttpGet(urls[i])]

\* mutant: a failed download is followed by a self-update
provisionBoth(goos, arch, statErr, meta, download, mkdirOk, openOk, runErr, b) ==
    LET resticPath == ResticPath(goos)
        d == downloadRestic(goos, arch, meta, download, mkdirOk, openOk, b)
        stat == <<StatCall(resticPath, statErr)>>
        update == <<Stdout("restic found, performing self-update..."),
                    Exec(resticPath, <<"self-update">>, Unset, runErr)>>
                  \o (IF runErr
                      THEN <<Stderr("restic self-update failed: exit status"), OsExit(1)>>
                      ELSE <<>>)
    IN  IF statErr = "notexist"
        THEN IF d.err /= "nil"
             THEN [failed |-> runErr, bin |-> d.bin, download |-> <<d>>,
                   effects |-> stat
                               \o <<Stdout("restic not found, downloading latest release...")>>
                               \o Requests(d.requests) \o update]
             ELSE [failed |-> FALSE, bin |-> d.bin, download |-> <<d>>,
                   effects |-> stat
                               \o <<Stdout("restic not found, downloading latest release...")>>
                               \o Requests(d.requests)
                               \o <<Stdout("restic downloaded to " \o resticPath)>>]
        ELSE [failed |-> runErr, bin |-> b, download |-> <<>>,
              effects |-> stat \o update]

\* The provisioning step of main: os.Stat(resticPath), then downloadRestic
\* or self-update.  statErr is what os.Stat returns, runErr whether cmd.Run()
\* of self-update returns an error; download holds what downloadRestic
\* returned when it was called.
provision(goos, arch, statErr, meta, download, mkdirOk, openOk, runErr, b) ==
    LET resticPath == ResticPath(goos)
        d == downloadRestic(goos, arch, meta, download, mkdirOk, openOk, b)
    IN  IF statErr = "notexist"
        THEN [failed |-> d.err /= "nil", bin |-> d.bin, download |-> <<d>>,
              effects |-> <<StatCall(resticPath, statErr),
                            Stdout("restic not found, downloading latest release...")>>
                          \o Requests(d.requests)
                          \o (IF d.err /= "nil"
                              THEN <<Stderr("failed to download restic: " \o d.err),
                                     OsExit(1)>>
                              ELSE <<Stdout("restic downloaded to " \o resticPath)>>)]
        ELSE [failed |-> runErr, bin |-> b, download |-> <<>>,
              effects |-> <<StatCall(resticPath, statErr),
                            Stdout("restic found, performing self-update..."),
                            Exec(resticPath, <<"self-update">>, Unset, runErr)>>
                          \o (IF runErr
                              THEN <<Stderr("restic self-update failed: exit status"),
                                     OsExit(1)>>
                              ELSE <<>>)]

\* whether cmd.Run() can return nil: only a complete executable runs
RunErrs(b) == IF b.restic = "complete" THEN BOOLEAN ELSE {TRUE}

----------------------------------------------------------------------------
(* The machines, releases, environments and answers main is run with       *)

MainHome == "/home/u"

MainRelease ==
    [TagName |-> "v1.0.0",
     Assets |-> <<[Name |-> "restic_1.0.0_linux_amd64.bz2",
                   BrowserDownloadURL |-> "https://downloads/a"],
                  [Name |-> "restic_1.0.0_windows_amd64.zip",
                   BrowserDownloadURL |-> "https://downloads/b"]>>]

MainMetas == {TransportError, Response(StatusOK, [k |-> "release", rel |-> MainRelease])}

MainEnvs ==
    {[n \in EnvNames |-> Unset],
     [n \in EnvNames |-> IF n = "RESTIC-REPO" THEN SetTo("~/envrepo")
                         ELSE SetTo("envpass")]}

MainRemotes ==
    {TransportError,
     Response(StatusOK,
              JObject(PastebinDoc(JStr("/srv/pb-repo"), JStr("pb-pass"),
                                  JArr(<<JStr("/a"), JStr("/b")>>), NotifyNone)))}

Answers == {"", "\n", "y\n", "Y\n", " y \r\n", "y", "n\n", "yes\n", "n\ny\n", "y\nn\n"}

----------------------------------------------------------------------------
(* A run of main, step by step                                             *)

\* the program is set up in a fresh working directory of another machine
Install ==
    /\ pc = "idle"
    /\ bin = EmptyBin /\ cfgFile = Absent /\ repos = {}
    /\ \E p \in Platforms \ {platform} : platform' = p
    /\ UNCHANGED <<configVars, releaseVars, pc, io, mainCfg, repos, call, procs>>

\* main up to the end of provisioning
MainProvision ==
    /\ pc = "idle"
    /\ \E auto \in AutoStartOutcomes, searchable \in BOOLEAN, meta \in MainMetas,
          download \in DownloadResponses, mkdirOk \in BOOLEAN, openOk \in BOOLEAN,
          runErr \in RunErrs(bin) :
         LET statErr == Stat(bin.restic /= "absent", searchable)
             out == provision(platform[1], platform[2], statErr, meta, download,
                              mkdirOk, openOk, runErr, bin)
         IN  /\ io' = ensureAutoStart(platform[1], MainHome, auto) \o out.effects
             /\ bin' = out.bin
             /\ dl' = IF out.download = <<>> THEN NoCall
                      ELSE [goos |-> platform[1], arch |-> platform[2],
                            meta |-> meta, download |-> download,
                            mkdirOk |-> mkdirOk, openOk |-> openOk,
                            before |-> bin, out |-> out.download[1]]
             /\ pc' = IF out.failed THEN "exited" ELSE "provisioned"
    /\ UNCHANGED <<configVars, mainCfg, repos, platform, call, procs>>

\* cfg := getConfig() and the two lines printed after it
MainGetConfig ==
    /\ pc = "provisioned"
    /\ \E env \in MainEnvs, remote \in MainRemotes, w \in WriteOutcomes :
         LET out == getConfig(MainHome, env, remote, cfgFile, w)
         IN  /\ w /= "ok" => cfgFile = Absent
             /\ mainCfg' = out.result
             /\ cfgFile' = out.file
             /\ cached' = IF out.writes
                          THEN (IF w = "ok" THEN [has |-> TRUE, cfg |-> out.result]
                                ELSE NotCached)
                          ELSE cached
             /\ io' = io \o Requests(out.requests)
                         \o (IF out.writes THEN <<FileWrite(configFile, w)>> ELSE <<>>)
                         \o <<Stdout("repository: " \o out.result.Repo),
                              Stdout("password: " \o out.result.Password)>>
    /\ pc' = "configured"
    /\ UNCHANGED <<run, releaseVars, repos, platform, call, procs>>

\* ensureRepo(resticPath, cfg.Repo, cfg.Password); a successful init leaves
\* the config file in the repository
MainEnsureRepo ==
    /\ pc = "configured"
    /\ \E searchable \in BOOLEAN, runErr \in RunErrs(bin) :
         LET repoPath == expandUser(mainCfg.Repo, MainHome, FALSE)
             statErr == Stat(repoPath \in repos, searchable)
             out == ensureRepo(ResticPath(platform[1]), mainCfg.Repo,
                               mainCfg.Password, MainHome, FALSE, statErr, runErr)
         IN  /\ io' = io \o out.effects
                         \o (IF out.err
                             THEN <<Stderr("failed to ensure repo: exit status"),
                                    OsExit(1)>>
                             ELSE <<>>)
             /\ repos' = IF statErr /= "none" /\ ~runErr THEN repos \cup {repoPath}
                         ELSE repos
             /\ pc' = IF out.err THEN "exited" ELSE "ready"
    /\ UNCHANGED <<configVars, releaseVars, mainCfg, platform, call, procs>>

\* runBackup(resticPath, cfg, os.Stdin, os.Stdout); returning from main ends
\* the process with status 0
MainRunBackup ==
    /\ pc = "ready"
    /\ \E input \in Answers, runErr \in RunErrs(bin) :
         LET out == runBackup(ResticPath(platform[1]), mainCfg, input, MainHome,
                              FALSE, runErr)
         IN  io' = io \o out.effects
                      \o (IF out.err
                          THEN <<Stderr("restic backup failed: exit status"), OsExit(1)>>
                          ELSE <<OsExit(0)>>)
    /\ pc' = "exited"
    /\ UNCHANGED <<configVars, releaseVars, mainCfg, repos, platform, call, procs>>

\* the process is gone; ./bin, config.json and the repositories stay
MainExit ==
    /\ pc = "exited"
    /\ pc' = "idle"
    /\ io' = <<>>
    /\ mainCfg' = ZeroConfig
    /\ dl' = NoCall
    /\ UNCHANGED <<configVars, bin, repos, platform, call, procs>>

NextMain ==
    \/ Install \/ MainProvision \/ MainGetConfig \/ MainEnsureRepo
    \/ MainRunBackup \/ MainExit

SpecMain == Init /\ [][NextMain]_vars

----------------------------------------------------------------------------
(* What the running process has done so far, read off io                   *)

\* the positions in io of the effects e with P(e)
Where(P(_)) == {i \in DOMAIN io : P(io[i])}

IsReleaseRequest(e) == e = HttpGet(releaseURL)
IsSelfUpdate(e) == e.op = "exec" /\ e.args = <<"self-update">>
IsResticStat(e) == e.op = "stat" /\ e.path = ResticPath(platform[1])

\* downloadRestic was called: its first effect is the request for the release
DownloadAttempts == Where(IsReleaseRequest)
SelfUpdateAttempts == Where(IsSelfUpdate)

\* C11 (as claimed): when main has passed provisioning, exactly one of
\* download and self-update has been attempted, once; the download if and
\* only if the executable did not exist when main started, the self-update
\* if and only if it existed; and later steps of the run attempt neither.
C11_TwoStateMachine ==
    [][pc' /= "idle" =>
         /\ Cardinality(DownloadAttempts') + Cardinality(SelfUpdateAttempts') = 1
         /\ pc = "idle" =>
              /\ DownloadAttempts' /= {} <=> bin.restic = "absent"
              /\ SelfUpdateAttempts' /= {} <=> bin.restic /= "absent"]_vars

\* C11 (amended): exactly one of download and self-update is attempted,
\* once per run; the download if and only if os.Stat reports that the
\* executable does not exist, the self-update in every other case, that is
\* when the executable exists or when os.Stat fails for another reason; a
\* download is attempted only when the executable is absent, and later
\* steps of the run attempt neither.
C11_TwoStateMachineByStat ==
    [][pc' /= "idle" =>
         /\ Cardinality(DownloadAttempts') + Cardinality(SelfUpdateAttempts') = 1
         /\ Cardinality(Where(IsResticStat)') = 1
         /\ \A i \in Where(IsResticStat)' :
              /\ DownloadAttempts' /= {} <=> io'[i].err = "notexist"
              /\ SelfUpdateAttempts' /= {} <=> io'[i].err /= "notexist"
         /\ pc = "idle" =>
              /\ DownloadAttempts' /= {} => bin.restic = "absent"
              /\ bin.restic /= "absent" => SelfUpdateAttempts' /= {}]_vars

\* a run that could not examine ./bin/restic, attempted the self-update of an
\* executable that is not there, and exited
C11_Witness ==
    /\ pc = "exited"
    /\ bin.restic = "absent"
    /\ SelfUpdateAttempts /= {} /\ DownloadAttempts = {}
    /\ \E i \in Where(IsResticStat) : io[i].err = "other"
    /\ io[Len(io)] = OsExit(1)

\* the step of main an effect belongs to: 1 provisioning, 2 configuration
\* resolution, 3 repository initialization, 4 backup; 0 for the rest
Step(e) ==
    CASE e.op = "stat" -> IF e.path = ResticPath(platform[1]) THEN 1 ELSE 3
      [] e.op = "get" -> IF e.url = pastebinURL THEN 2 ELSE 1
      [] e.op = "write" -> IF e.path = configFile THEN 2 ELSE 0
      [] e.op = "exec" ->
            (CASE e.args = <<"self-update">> -> 1
               [] e.path = "reg" -> 0
               [] e.args[Len(e.args)] = "init" -> 3
               [] OTHER -> 4)
      [] e.op = "readline" -> 4
      [] e.op = "stdout" ->
            (CASE HasPrefix(e.text, "restic repository found")
                  \/ HasPrefix(e.text, "initializing restic repository") -> 3
               [] e = Stdout("proceed with backup? [y/N]: ")
                  \/ e = Stdout("paths to backup:") -> 4
               [] OTHER -> 0)
      [] OTHER -> 0

InStep(n) == {i \in DOMAIN io : Step(io[i]) = n}

\* downloadRestic returned an error, or self-update exited non-zero
ProvisioningFailed ==
    \/ dl /= NoCall /\ dl.out.err /= "nil"
    \/ \E i \in SelfUpdateAttempts : io[i].err

IsInit(e) == e.op = "exec" /\ e.path /= "reg" /\ e.args[Len(e.args)] = "init"
InitFailed == \E i \in Where(IsInit) : io[i].err

ExitedWith(code) == pc = "exited" /\ io /= <<>> /\ io[Len(io)] = OsExit(code)

\* the run so far is ordered and fail-stop
OrderedFailStop ==
    /\ \A i, j \in DOMAIN io :
         i < j /\ Step(io[i]) > 0 /\ Step(io[j]) > 0 => Step(io[i]) <= Step(io[j])
    /\ \A i \in DOMAIN io : io[i].op = "exit" => i = Len(io) /\ pc = "exited"
    /\ pc \in {"provisioned", "configured", "ready"} => ~ProvisioningFailed
    /\ pc = "provisioned" => InStep(2) \cup InStep(3) \cup InStep(4) = {}
    /\ pc = "configured" => InStep(3) \cup InStep(4) = {}
    /\ pc = "ready" => InStep(4) = {} /\ ~InitFailed
    /\ ProvisioningFailed =>
         /\ ExitedWith(1)
         /\ InStep(2) \cup InStep(3) \cup InStep(4) = {}
    /\ InitFailed => ExitedWith(1) /\ InStep(4) = {}
    /\ InStep(2) /= {} \/ InStep(3) /= {} => InStep(1) /= {}
    /\ InStep(4) /= {} => InStep(3) /= {}

\* C12: in every run the effects of provisioning, configuration resolution,
\* repository initialization and backup occur in this order, each step
\* starting only when the one before has returned without error; a failed
\* provisioning (error of downloadRestic, or self-update exiting non-zero)
\* ends the process with status 1 with no request to the configuration URL,
\* config.json untouched, and neither init nor backup invoked; a failed
\* init ends it with status 1 with no prompt and no backup.
C12_OrderedFailStop ==
    [][/\ OrderedFailStop'
       /\ pc = "idle" /\ pc' = "exited" => cfgFile' = cfgFile /\ ProvisioningFailed'
       /\ pc = "configured" /\ pc' = "exited" => InitFailed']_vars

\* a run that downloaded the executable, resolved the configuration, then
\* failed to initialize the repository and exited
C12_Witness ==
    /\ ExitedWith(1)
    /\ DownloadAttempts /= {} /\ ~ProvisioningFailed
    /\ InStep(2) /= {}
    /\ InitFailed

----------------------------------------------------------------------------
(* ensureRepo called repeatedly, as a test does                            *)

Repos == {"", "~", "~/backup", "~backup", "/srv/repo"}
Passwords == {"", "pass"}
TestRestic == "/tmp/restic"

\* one call of ensureRepo; a successful init leaves the config file in the
\* repository
EnsureRepo ==
    /\ pc = "idle"
    /\ \E repo \in Repos, password \in Passwords, homeErr \in BOOLEAN,
          searchable \in BOOLEAN, runErr \in BOOLEAN :
         LET repoPath == expandUser(repo, MainHome, homeErr)
             statErr == Stat(repoPath \in repos, searchable)
             out == ensureRepo(TestRestic, repo, password, MainHome, homeErr,
                               statErr, runErr)
         IN  /\ call' = [fn |-> "ensureRepo", repo |-> repo, password |-> password,
                         home |-> MainHome, homeErr |-> homeErr,
                         statErr |-> statErr, runErr |-> runErr,
                         before |-> repos, out |-> out]
             /\ repos' = IF statErr /= "none" /\ ~runErr THEN repos \cup {repoPath}
                         ELSE repos
    /\ UNCHANGED <<configVars, releaseVars, pc, io, mainCfg, platform, procs>>

\* the test starts over in a fresh directory
ResetRepos ==
    /\ pc = "idle"
    /\ repos /= {}
    /\ repos' = {}
    /\ call' = NoCall
    /\ UNCHANGED <<configVars, releaseVars, pc, io, mainCfg, platform, procs>>

NextRepo == EnsureRepo \/ ResetRepos

SpecRepo == Init /\ [][NextRepo]_vars

\* the last call was of ensureRepo
CalledEnsureRepo == call /= NoCall /\ call.fn = "ensureRepo"

\* the destination of the last ensureRepo call, and whether it held the
\* config file when the call was made
Destination == expandUser(call.repo, call.home, call.homeErr)
MarkerPresent == Destination \in call.before

IsExec(e) == e.op = "exec"
ExecsOf(effects) == SelectSeq(effects, IsExec)

\* the one invocation the claim allows: init on the destination, the
\* password in RESTIC_PASSWORD
InitOnce ==
    /\ ExecsOf(call.out.effects)
         = <<Exec(TestRestic, <<"-r", Destination, "init">>, SetTo(call.password),
                  call.runErr)>>
    /\ call.out.err = call.runErr

----------------------------------------------------------------------------
(* What a run of main prints                                               *)

\* strings.Contains(s, sub)
Contains(s, sub) ==
    \E i \in 1..(Len(s) - Len(sub) + 1) : SubSeq(s, i, i + Len(sub) - 1) = sub

IsPrinted(e) == e.op \in {"stdout", "stderr"}

\* C14: once main holds the resolved configuration, no line the run has
\* printed to standard output or standard error contains the password.
C14_PasswordNeverPrinted ==
    pc \in {"configured", "ready", "exited"} /\ mainCfg.Password /= "" =>
        \A i \in Where(IsPrinted) : ~Contains(io[i].text, mainCfg.Password)

----------------------------------------------------------------------------
(* runBackup called directly, as a test does                               *)

BackupPaths == {<<>>, <<"/a", "/b">>, <<"/b", "/a">>}

BackupConfigs ==
    {[ZeroConfig EXCEPT !.Repo = x[1], !.Password = x[2], !.Paths = x[3]] :
        x \in Repos \X Passwords \X BackupPaths}

\* one call of runBackup
RunBackup ==
    /\ pc = "idle"
    /\ \E c \in BackupConfigs, input \in Answers, homeErr \in BOOLEAN,
          runErr \in BOOLEAN :
         call' = [fn |-> "runBackup", cfg |-> c, input |-> input,
                  home |-> MainHome, homeErr |-> homeErr, runErr |-> runErr,
                  out |-> runBackup(TestRestic, c, input, MainHome, homeErr, runErr)]
    /\ pc' = "returned"
    /\ UNCHANGED <<configVars, releaseVars, io, mainCfg, repos, platform, procs>>

\* the caller goes on
Return ==
    /\ pc = "returned"
    /\ pc' = "idle"
    /\ call' = NoCall
    /\ UNCHANGED <<configVars, releaseVars, io, mainCfg, repos, platform, procs>>

NextBackup == RunBackup \/ Return

SpecBackup == Init /\ [][NextBackup]_vars

CalledRunBackup == call /= NoCall /\ call.fn = "runBackup"

\* the answers whose first line, trimmed and lower-cased, is "y"
Yes == {"y\n", "Y\n", " y \r\n", "y", "y\nn\n"}

\* the backup invocation the claim describes
BackupCommand ==
    Exec(TestRestic,
         <<"-r", expandUser(call.cfg.Repo, call.home, call.homeErr), "backup">>
             \o call.cfg.Paths,
         SetTo(call.cfg.Password), call.runErr)

\* C15: runBackup executes the tool if and only if the first line of the
\* input, trimmed and lower-cased, is "y".  Otherwise it executes nothing,
\* prints "backup aborted" and returns nil.  When it does execute, it is
\* once, with the arguments -r <expanded repo> backup <paths in order>, the
\* password in RESTIC_PASSWORD and in no argument, and it returns an error
\* exactly when the tool fails.
C15_BackupOnlyOnConfirmation ==
    CalledRunBackup =>
        LET execs == ExecsOf(call.out.effects)
            last == call.out.effects[Len(call.out.effects)]
        IN  /\ execs /= <<>> <=> call.input \in Yes
            /\ call.input \notin Yes =>
                 /\ last = Stdout("backup aborted")
                 /\ ~call.out.err
            /\ call.input \in Yes =>
                 /\ execs = <<BackupCommand>>
                 /\ execs[1].args[1] = "-r" /\ execs[1].args[3] = "backup"
                 /\ SubSeq(execs[1].args, 4, Len(execs[1].args)) = call.cfg.Paths
                 /\ execs[1].env = SetTo(call.cfg.Password)
                 /\ call.cfg.Password /= "" =>
                      \A k \in DOMAIN execs[1].args : execs[1].args[k] /= call.cfg.Password
                 /\ call.out.err = call.runErr
                 /\ ~call.runErr => last = Stdout("backup completed")

\* a confirmed backup with an upper-case answer whose tool fails
C15_Witness ==
    /\ CalledRunBackup
    /\ call.input = "Y\n"
    /\ call.cfg.Paths = <<"/b", "/a">>
    /\ call.cfg.Repo = "~/backup" /\ ~call.homeErr
    /\ call.runErr /\ call.out.err
    /\ Len(ExecsOf(call.out.effects)) = 1

----------------------------------------------------------------------------
(* notify                                                                  *)

pushoverURL == "https://api.pushover.net/1/messages.json"

\* httpClient.PostForm(url, data) and whether it returned an error
PostForm(url, data, err) == [op |-> "post", url |-> url, data |-> data, err |-> err]
\* smtpSendMail(addr, auth, from, to, msg) and whether it returned an error
SendMail(addr, auth, from, to, msg, err) ==
    [op |-> "mail", addr |-> addr, auth |-> auth, from |-> from, to |-> to,
     msg |-> msg, err |-> err]

PushoverConfigured(c) == c.PushoverToken /= "" /\ c.PushoverUser /= ""

\* mutant: the recipient is not required
EmailConfiguredNoRecipient(c) ==
    /\ c.EmailServer /= "" /\ c.EmailUser /= "" /\ c.EmailPassword /= ""
    /\ c.EmailFrom /= ""

EmailConfigured(c) ==
    /\ c.EmailServer /= "" /\ c.EmailUser /= "" /\ c.EmailPassword /= ""
    /\ c.EmailFrom /= "" /\ c.EmailTo /= ""

\* sendPushover(cfg, title, message)
sendPushover(c, title, message, err) ==
    LET data == [token |-> c.PushoverToken, user |-> c.PushoverUser,
                 message |-> message]
    IN  <<PostForm(pushoverURL,
                   IF title /= "" THEN data @@ [title |-> title] ELSE data, err)>>

\* strings.Split(addr, ":")[0]
BeforeColon(addr) ==
    LET at == {i \in 1..Len(addr) : SubSeq(addr, i, i) = ":"}
    IN  IF at = {} THEN addr
        ELSE SubSeq(addr, 1, (CHOOSE i \in at : \A j \in at : i <= j) - 1)

\* sendEmail(cfg, subject, body)
sendEmail(c, subject, message, err) ==
    LET host == BeforeColon(c.EmailServer)
        addr == IF Contains(c.EmailServer, ":") THEN c.EmailServer
                ELSE c.EmailServer \o ":587"
    IN  <<SendMail(addr,
                   [user |-> c.EmailUser, password |-> c.EmailPassword, host |-> host],
                   c.EmailFrom, <<c.EmailTo>>,
                   "Subject: " \o subject \o "\r\n\r\n" \o message, err)>>

\* One call of notify: what it sends, in order.  pushErr and mailErr are
\* whether PostForm and smtpSendMail return an error; notify returns nothing.
notify(c, subject, message, pushErr, mailErr) ==
    (IF PushoverConfigured(c) THEN sendPushover(c, subject, message, pushErr)
     ELSE <<>>)
    \o (IF EmailConfigured(c) THEN sendEmail(c, subject, message, mailErr)
        ELSE <<>>)

NotifyConfigs ==
    {[ZeroConfig EXCEPT
         !.PushoverToken = x[1], !.PushoverUser = x[2], !.EmailServer = x[3],
         !.EmailUser = x[4], !.EmailPassword = x[5], !.EmailFrom = x[6],
         !.EmailTo = x[7]] :
        x \in {"", "pt"} \X {"", "pu"} \X {"", "smtp.example:25", "smtp.example"}
              \X {"", "eu"} \X {"", "ep"} \X {"", "from"} \X {"", "to"}}

Subjects == {"", "title"}

\* one call of notify
Notify ==
    /\ pc = "idle"
    /\ \E c \in NotifyConfigs, subject \in Subjects, pushErr \in BOOLEAN,
          mailErr \in BOOLEAN :
         call' = [fn |-> "notify", cfg |-> c, subject |-> subject, message |-> "body",
                  pushErr |-> pushErr, mailErr |-> mailErr,
                  out |-> [effects |-> notify(c, subject, "body", pushErr, mailErr)]]
    /\ pc' = "returned"
    /\ UNCHANGED <<configVars, releaseVars, io, mainCfg, repos, platform, procs>>

NextNotify == Notify \/ Return

SpecNotify == Init /\ [][NextNotify]_vars

CalledNotify == call /= NoCall /\ call.fn = "notify"

IsPost(e) == e.op = "post"
IsMail(e) == e.op = "mail"

\* C16: a call of notify posts to Pushover exactly when token and user are
\* both non-empty, and sends a mail exactly when server, user, password,
\* from and to are all non-empty; each at most once, the post before the
\* mail, and an error of either send changes nothing in what is attempted.
C16_NotifyIffConfigured ==
    CalledNotify =>
        LET sent == call.out.effects
            posts == SelectSeq(sent, IsPost)
            mails == SelectSeq(sent, IsMail)
            push == call.cfg.PushoverToken /= "" /\ call.cfg.PushoverUser /= ""
            mail == \A f \in {"EmailServer", "EmailUser", "EmailPassword",
                              "EmailFrom", "EmailTo"} : call.cfg[f] /= ""
        IN  /\ Len(posts) = (IF push THEN 1 ELSE 0)
            /\ Len(mails) = (IF mail THEN 1 ELSE 0)
            /\ sent = posts \o mails
            /\ push => posts[1].err = call.pushErr
                       /\ posts[1].data.token = call.cfg.PushoverToken
                       /\ posts[1].data.user = call.cfg.PushoverUser
            /\ mail => mails[1].err = call.mailErr
                       /\ mails[1].from = call.cfg.EmailFrom
                       /\ mails[1].to = <<call.cfg.EmailTo>>

\* both channels configured, the post fails, the mail is still sent
C16_Witness ==
    /\ CalledNotify
    /\ call.pushErr /\ ~call.mailErr
    /\ Len(call.out.effects) = 2
    /\ call.out.effects[1].op = "post" /\ call.out.effects[1].err
    /\ call.out.effects[2].op = "mail"

----------------------------------------------------------------------------
(* Provisioning from an absent executable                                  *)

\* C17: when main found no executable, called downloadRestic and got nil,
\* so that it goes on to resolve the configuration, the executable is there
\* and complete; for a .bz2 and for a .zip archive alike.
C17_DownloadedExecutableExists ==
    pc /= "idle" /\ dl /= NoCall /\ dl.before.restic = "absent" /\ dl.out.err = "nil" =>
        bin.restic = "complete"

----------------------------------------------------------------------------
(* config.json over a sequence of runs                                     *)

\* the strings of a list as encoding/json writes and reads them
AsCached(paths) == [i \in 1..Len(paths) |-> ToValidUTF8(paths[i])]

----------------------------------------------------------------------------
(* Two processes in getConfig at the same time, config.json absent         *)

RECURSIVE SumLen(_, _)
\* the total length of the strings of object o under the keys
SumLen(o, keys) ==
    IF keys = {} THEN 0
    ELSE LET k == CHOOSE x \in keys : TRUE
         IN  Len(o[k].s) + SumLen(o, keys \ {k})

RECURSIVE ArrayLen(_)
\* the length of the text of a non-empty indented array of strings, from its
\* opening to its closing bracket
ArrayLen(a) ==
    IF a = <<>> THEN 3 ELSE Len(Head(a).s) + 8 + ArrayLen(Tail(a))

\* The length of the content of config.json: of an empty file, or of the
\* text of a marshalled configuration less what all such texts share (the
\* braces, keys, quotes and indentation of the ten fields).
TextLen(data) ==
    IF data.k /= "object" THEN 0
    ELSE SumLen(data.o, {Tag[f] : f \in StringFields})
         + (IF data.o[Tag.Paths].t = "array" THEN ArrayLen(data.o[Tag.Paths].a)
            ELSE 4)

\* mutant: a write replaces the content as a whole
OverlayWhole(file, data) == FileWith(data)

\* f.Write(data) of os.WriteFile on the descriptor opened before: the bytes
\* go to the start of the file, and what a longer content had beyond them
\* stays, which leaves a text that does not parse
Overlay(file, data) ==
    IF file.k = "data" /\ TextLen(file.data) > TextLen(data) THEN FileWith(JInvalid)
    ELSE FileWith(data)

\* os.OpenFile(name, O_WRONLY|O_CREATE|O_TRUNC, perm) of os.WriteFile by proc
OpenTrunc(proc) == [op |-> "open", proc |-> proc]
\* f.Write(data) of os.WriteFile by proc
WriteData(proc, data) == [op |-> "write", proc |-> proc, data |-> data]

\* process p runs getConfig up to and including os.ReadFile
ResolveAndRead(p) ==
    /\ procs[p].pc = "start"
    /\ \E env \in MainEnvs, remote \in MainRemotes :
         LET out == getConfig(MainHome, env, remote, cfgFile, "ok")
         IN  procs' = [procs EXCEPT ![p] =
                          [pc |-> IF out.writes THEN "open" ELSE "returned",
                           env |-> env, remote |-> remote,
                           saw |-> ReadFile(cfgFile).err, cfg |-> out.result]]
    /\ UNCHANGED <<configVars, releaseVars, pc, io, mainCfg, repos, platform, call>>

\* process p, in os.WriteFile, creates or truncates config.json
Open(p) ==
    /\ procs[p].pc = "open"
    /\ cfgFile' = FileWith(JInvalid)
    /\ io' = Append(io, OpenTrunc(p))
    /\ procs' = [procs EXCEPT ![p].pc = "write"]
    /\ UNCHANGED <<cached, run, releaseVars, pc, mainCfg, repos, platform, call>>

\* process p, in os.WriteFile, writes its data, and getConfig returns
Write(p) ==
    /\ procs[p].pc = "write"
    /\ cfgFile' = Overlay(cfgFile, CacheData(procs[p].cfg))
    /\ io' = Append(io, WriteData(p, CacheData(procs[p].cfg)))
    /\ procs' = [procs EXCEPT ![p].pc = "returned"]
    /\ UNCHANGED <<cached, run, releaseVars, pc, mainCfg, repos, platform, call>>

NextRace == \E p \in Procs : ResolveAndRead(p) \/ Open(p) \/ Write(p)

SpecRace == Init /\ [][NextRace]_vars

AllReturned == \A p \in Procs : procs[p].pc = "returned"

IsWrite(e) == e.op = "write"
IsOpen(e) == e.op = "open"
Writes == SelectSeq(io, IsWrite)
LastWrite == Writes[Len(Writes)]

\* what process p resolves from its own environment and remote document
OwnResolution(p) ==
    getConfig(MainHome, procs[p].env, procs[p].remote, Absent, "ok").result

\* the last write began before the other process wrote, and is shorter
Overlapped ==
    /\ Len(Writes) = 2
    /\ \E i, j \in DOMAIN io :
         /\ i < j
         /\ io[i] = OpenTrunc(LastWrite.proc)
         /\ IsWrite(io[j]) /\ io[j].proc /= LastWrite.proc
    /\ TextLen(Writes[1].data) > TextLen(LastWrite.data)

\* C19 (as claimed): when both processes have returned, config.json holds
\* the configuration of the process that wrote last, and a process that saw
\* the file absent has returned what it resolved itself.
C19_LastWriterWins ==
    AllReturned =>
        /\ Writes /= <<>> => cfgFile = FileWith(LastWrite.data)
        /\ \A p \in Procs : procs[p].saw = "notexist" => procs[p].cfg = OwnResolution(p)

\* C19 (amended): the check and the write are separate steps, and so are
\* the truncation and the write of the data.  When both processes have
\* returned, config.json holds the configuration of the process that wrote
\* last, unless that process truncated the file before the other one wrote
\* and its text is the shorter: then the file holds the shorter text
\* followed by the rest of the longer one, and does not parse.  A process
\* that saw the file absent writes it and returns what it resolved itself; a
\* process that did not see it absent writes nothing.
C19_LastWriterWinsUnlessOverlapped ==
    /\ \A p \in Procs :
         /\ procs[p].pc \in {"open", "write"} => procs[p].saw = "notexist"
         /\ procs[p].pc = "returned" =>
              /\ procs[p].saw = "notexist" <=> \E i \in DOMAIN Writes : Writes[i].proc = p
              /\ procs[p].saw = "notexist" => procs[p].cfg = OwnResolution(p)
    /\ AllReturned /\ Writes /= <<>> =>
         /\ Overlapped => cfgFile = FileWith(JInvalid)
         /\ ~Overlapped => cfgFile = FileWith(LastWrite.data)

\* both processes saw the file absent, both wrote, the shorter text last
\* over the longer one: the file does not parse
C19_Witness ==
    /\ AllReturned
    /\ \A p \in Procs : procs[p].saw = "notexist"
    /\ Len(Writes) = 2 /\ Writes[1].proc /= Writes[2].proc
    /\ Writes[1].data /= Writes[2].data
    /\ Overlapped
    /\ cfgFile = FileWith(JInvalid)

====
